---- MODULE Spec2Model ----
(***************************************************************************)
(* Session orchestration engine of ask-the-manual (src/App.tsx): the       *)
(* status lifecycle, the upload pipeline of handleUploadAndStartChat, the  *)
(* chat turn of handleSendMessage, end chat, page unload and the           *)
(* credential checks.                                                      *)
(*                                                                         *)
(* Each action is one synchronous stretch of a handler: from the event (or *)
(* the resumption after an await) to the next await.  React commits the    *)
(* state updates of one stretch together, and the effect that copies       *)
(* activeRagStoreName into ragStoreNameRef runs with that commit.  An      *)
(* async handler keeps the values its closure captured when it was called  *)
(* (files, activeRagStoreName); the setters act on the live state.         *)
(***************************************************************************)
EXTENDS Integers, Sequences, FiniteSets, TLC

\* ------------------------------------------------------------------ bounds
MaxRuns == 3            \* pipeline runs started in one behaviour, preset key
MaxHostRuns == 2        \* the same where the host supplies the credential
MaxFiles == 2           \* files pending at once
MaxQueries == 2         \* chat messages sent in one behaviour
MaxPendingChecks == 1   \* credential calls of the host in flight at once
MaxDocFiles == 3        \* files of the one run of SpecPipeline
MaxFetches == 2         \* sample fetches started in one behaviour
MaxLines == 3           \* lines of a text given to renderMarkdown
MaxLineLen == 3         \* characters of a line drawn from LineChars
MaxQuestions == 4       \* suggestions given to ChatInterface

FileNames == {"a.pdf", "b.pdf"}
Messages == {"how?"}
Answers == {"like this"}
QuestionLists == {<<"q1", "q2">>}

\* ----------------------------------------------------------- option values
Null == <<>>
Some(x) == <<x>>

\* useState<string | null>(null) of activeRagStoreName: no store.
NoStore == 0
\* total of a progress object spread from a null prev: undefined.
NoTotal == 0 - 1

\* ------------------------------------------------------------------ strings
\* Texts the code inspects are sequences of characters.
UpperChars == <<"A","B","C","D","E","F","G","H","I","J","K","L","M","N","O","P","Q","R","S","T","U","V","W","X","Y","Z">>
LowerChars == <<"a","b","c","d","e","f","g","h","i","j","k","l","m","n","o","p","q","r","s","t","u","v","w","x","y","z">>

ToLowerChar(c) ==
    IF \E k \in 1..Len(UpperChars) : UpperChars[k] = c
    THEN LowerChars[CHOOSE k \in 1..Len(UpperChars) : UpperChars[k] = c]
    ELSE c

\* String.prototype.toLowerCase
ToLowerCase(s) == [k \in 1..Len(s) |-> ToLowerChar(s[k])]

\* String.prototype.includes
Includes(s, pat) ==
    \E off \in 0..(Len(s) - Len(pat)) :
        \A k \in 1..Len(pat) : s[off + k] = pat[k]

PatApiKeyNotValid == <<"a","p","i"," ","k","e","y"," ","n","o","t"," ","v","a","l","i","d">>
PatEntityNotFound == <<"r","e","q","u","e","s","t","e","d"," ","e","n","t","i","t","y"," ","w","a","s"," ","n","o","t"," ","f","o","u","n","d">>

\* Values a remote call can reject with.
ErrKeyInvalid == [isError |-> TRUE, message |-> <<"A","P","I"," ","k","e","y"," ","n","o","t"," ","v","a","l","i","d">>]
ErrEntityNotFound == [isError |-> TRUE, message |-> <<"R","e","q","u","e","s","t","e","d"," ","e","n","t","i","t","y"," ","w","a","s"," ","n","o","t"," ","f","o","u","n","d",".">>]
ErrNetwork == [isError |-> TRUE, message |-> <<"N","e","t","w","o","r","k"," ","e","r","r","o","r">>]

Errs == {ErrKeyInvalid, ErrEntityNotFound, ErrNetwork}
\* Rejections of initialize and of fileSearch: their text is not inspected.
OtherErrs == {ErrNetwork}

\* err instanceof Error ? err.message : String(err)
ErrText(err) == err.message

\* err ? ... : '': an Error object is truthy, a string is truthy when non-empty.
Truthy(err) == err.isError \/ Len(err.message) > 0

MsgStartFailed == <<"F","a","i","l","e","d"," ","t","o"," ","s","t","a","r","t"," ","c","h","a","t"," ","s","e","s","s","i","o","n">>
MsgQueryFailed == <<"F","a","i","l","e","d"," ","t","o"," ","g","e","t"," ","r","e","s","p","o","n","s","e">>
MsgInitFailed == <<"I","n","i","t","i","a","l","i","z","a","t","i","o","n"," ","f","a","i","l","e","d","."," ","P","l","e","a","s","e"," ","s","e","l","e","c","t"," ","a"," ","v","a","l","i","d"," ","A","P","I"," ","K","e","y",".">>

KeyRequiredText == "Please select your Gemini API Key first."
KeyInvalidText == "The selected API key is invalid. Please select a different one and try again."
ApologyText == "Sorry, I encountered an error. Please try again."

\* ------------------------------------------------------------------- state
VARIABLES
    status,              \* AppStatus
    isApiKeySelected,    \* cached credential-availability flag
    apiKeyError,         \* Null or Some(text)
    error,               \* lastError: Null or Some(character sequence)
    uploadProgress,      \* Null or Some([current, total, message, fileName])
    activeRagStoreName,  \* NoStore or a store id
    ragStoreNameRef,     \* ragStoreNameRef.current
    chatHistory,         \* sequence of turns
    isQueryLoading,
    exampleQuestions,
    documentName,        \* sequence of text pieces, <<>> is ''
    files,               \* pendingFiles: sequence of file names
    viteApiKey,          \* a preset credential is present in the environment
    aistudio,            \* the host capability window.aistudio is present
    pendingChecks,       \* hasSelectedApiKey() calls in flight
    pickerOpen,          \* openSelectKey() calls in flight
    runs,                \* in-flight runs of handleUploadAndStartChat
    nextRun,
    queries,             \* fileSearch calls in flight
    nextQuery,
    stores,              \* stores createRagStore has created on the remote side
    disposeCalls,        \* deleteRagStore calls made, per store id
    unloaded,            \* the page has been torn down
    loadingSample,       \* WelcomeScreen's loadingSample: Null or Some(name)
    fetches,             \* handleSelectSample calls in flight
    nextFetch,
    alerts,              \* alert() notifications shown for sample failures
    disposing,           \* deleteRagStore promises not settled yet
    lines,               \* renderMarkdown: the lines of the text given to it
    rendered,            \* renderMarkdown: it has returned
    html,                \* renderMarkdown: the markup returned
    currentSuggestion,   \* ChatInterface: the suggestion shown, "" for none
    suggestionIndex,     \* ChatInterface: the index held by the interval
    intervalSet          \* ChatInterface: the interval of the effect is set

vars == <<status, isApiKeySelected, apiKeyError, error, uploadProgress,
          activeRagStoreName, ragStoreNameRef, chatHistory, isQueryLoading,
          exampleQuestions, documentName, files, viteApiKey, aistudio,
          pendingChecks, pickerOpen, runs, nextRun, queries, nextQuery,
          stores, disposeCalls, unloaded, loadingSample, fetches, nextFetch,
          alerts, disposing, lines, rendered, html, currentSuggestion,
          suggestionIndex, intervalSet>>

uiVars == <<status, isApiKeySelected, apiKeyError, error, uploadProgress,
            activeRagStoreName, ragStoreNameRef, chatHistory, isQueryLoading,
            exampleQuestions, documentName, files>>
envVars == <<viteApiKey, aistudio>>
credVars == <<pendingChecks, pickerOpen>>
runVars == <<runs, nextRun>>
queryVars == <<queries, nextQuery>>
remoteVars == <<stores, disposeCalls>>
sampleVars == <<loadingSample, fetches, nextFetch, alerts>>
mdVars == <<lines, rendered, html>>
rotVars == <<currentSuggestion, suggestionIndex, intervalSet>>
viewVars == <<mdVars, rotVars>>

\* The sample and disposal state at the start of a page.  The renderer and
\* the rotator of the chat screen are idle here: they are modelled on their
\* own in SpecMarkdown and SpecRotator.
AuxInit ==
    /\ loadingSample = Null
    /\ fetches = {}
    /\ nextFetch = 1
    /\ alerts = 0
    /\ disposing = {}
    /\ lines = <<>>
    /\ rendered = FALSE
    /\ html = <<>>
    /\ currentSuggestion = ""
    /\ suggestionIndex = 0
    /\ intervalSet = FALSE

\* renderContent shows WelcomeScreen only in Welcome: when the status leaves
\* Welcome the component unmounts, its loadingSample is gone (the next mount
\* starts at null), and the calls of handleSelectSample still in flight
\* belong to the unmounted instance.
SampleFrame ==
    IF status = "Welcome" /\ status' # "Welcome"
    THEN /\ loadingSample' = Null
         /\ fetches' = {[f EXCEPT !.live = FALSE] : f \in fetches}
         /\ UNCHANGED <<nextFetch, alerts>>
    ELSE UNCHANGED sampleVars

\* Bound on the runs of one behaviour; run n creates store n.
RunLimit == IF viteApiKey THEN MaxRuns ELSE MaxHostRuns
StoreIds == 1..(IF MaxRuns > MaxHostRuns THEN MaxRuns ELSE MaxHostRuns)

Init ==
    /\ status = "Initializing"
    /\ isApiKeySelected = FALSE
    /\ apiKeyError = Null
    /\ error = Null
    /\ uploadProgress = Null
    /\ activeRagStoreName = NoStore
    /\ ragStoreNameRef = NoStore
    /\ chatHistory = <<>>
    /\ isQueryLoading = FALSE
    /\ exampleQuestions = <<>>
    /\ documentName = <<>>
    /\ files = <<>>
    /\ viteApiKey \in BOOLEAN
    \* with a preset key window.aistudio is never consulted
    /\ aistudio \in (IF viteApiKey THEN {FALSE} ELSE BOOLEAN)
    /\ pendingChecks = 0
    /\ pickerOpen = 0
    /\ runs = {}
    /\ nextRun = 1
    /\ queries = {}
    /\ nextQuery = 1
    /\ stores = {}
    /\ disposeCalls = [s \in StoreIds |-> 0]
    /\ unloaded = FALSE
    /\ AuxInit

\* ------------------------------------------------------- credential checks
\* checkApiKey up to its await: a preset key marks the credential selected;
\* otherwise, with the host capability, hasSelectedApiKey() is called.
CheckApiKeySelected == IF viteApiKey THEN TRUE ELSE isApiKeySelected
CheckApiKeyPending ==
    IF ~viteApiKey /\ aistudio THEN pendingChecks + 1 ELSE pendingChecks

CanCheck ==
    viteApiKey \/ ~aistudio \/ pendingChecks + pickerOpen < MaxPendingChecks

\* The mount effects: the initial checkApiKey() and setStatus(Welcome).
Mount ==
    /\ status = "Initializing"
    /\ ~unloaded
    /\ status' = "Welcome"
    /\ isApiKeySelected' = CheckApiKeySelected
    /\ pendingChecks' = CheckApiKeyPending
    /\ UNCHANGED <<apiKeyError, error, uploadProgress, activeRagStoreName,
                   ragStoreNameRef, chatHistory, isQueryLoading,
                   exampleQuestions, documentName, files, pickerOpen>>
    /\ UNCHANGED <<envVars, runVars, queryVars, remoteVars, unloaded>>
    /\ SampleFrame
    /\ UNCHANGED <<disposing, viewVars>>

Mounted == status # "Initializing" /\ ~unloaded

\* visibilitychange (visible) or focus: checkApiKey().
FocusCheck ==
    /\ Mounted
    /\ CanCheck
    /\ isApiKeySelected' = CheckApiKeySelected
    /\ pendingChecks' = CheckApiKeyPending
    /\ UNCHANGED <<status, apiKeyError, error, uploadProgress,
                   activeRagStoreName, ragStoreNameRef, chatHistory,
                   isQueryLoading, exampleQuestions, documentName, files,
                   pickerOpen>>
    /\ UNCHANGED <<envVars, runVars, queryVars, remoteVars, unloaded>>
    /\ SampleFrame
    /\ UNCHANGED <<disposing, viewVars>>

\* How an awaited hasSelectedApiKey() can end.
CheckOutcomes == {"true", "false", "rejected"}

\* A catch that assumes a key when the check failed
FlagAfterCheck_AssumeKey(outcome) == outcome # "false"

\* setIsApiKeySelected(hasKey); in the catch setIsApiKeySelected(false)
FlagAfterCheck(outcome) == outcome = "true"

\* hasSelectedApiKey() resolved with hasKey, or rejected.
CheckApiKeyResult(outcome) ==
    /\ Mounted
    /\ pendingChecks > 0
    /\ isApiKeySelected' = FlagAfterCheck(outcome)
    /\ pendingChecks' = pendingChecks - 1
    /\ UNCHANGED <<status, apiKeyError, error, uploadProgress,
                   activeRagStoreName, ragStoreNameRef, chatHistory,
                   isQueryLoading, exampleQuestions, documentName, files,
                   pickerOpen>>
    /\ UNCHANGED <<envVars, runVars, queryVars, remoteVars, unloaded>>
    /\ SampleFrame
    /\ UNCHANGED <<disposing, viewVars>>

CheckApiKeyDone == \E outcome \in CheckOutcomes : CheckApiKeyResult(outcome)

\* renderContent: which screen is shown, hence which handlers can be called.
WelcomeShown == Mounted /\ status = "Welcome"
ChatShown == Mounted /\ status = "Chatting"
ErrorShown == Mounted /\ status = "Error"

\* handleSelectKey up to its await.
SelectKey ==
    /\ WelcomeShown
    /\ CanCheck
    /\ isApiKeySelected' = CheckApiKeySelected
    /\ pickerOpen' = IF ~viteApiKey /\ aistudio THEN pickerOpen + 1 ELSE pickerOpen
    /\ UNCHANGED <<status, apiKeyError, error, uploadProgress,
                   activeRagStoreName, ragStoreNameRef, chatHistory,
                   isQueryLoading, exampleQuestions, documentName, files,
                   pendingChecks>>
    /\ UNCHANGED <<envVars, runVars, queryVars, remoteVars, unloaded>>
    /\ SampleFrame
    /\ UNCHANGED <<disposing, viewVars>>

\* openSelectKey() resolved (ok): checkApiKey() follows; rejected: logged.
PickerResult(ok) ==
    /\ Mounted
    /\ pickerOpen > 0
    /\ pickerOpen' = pickerOpen - 1
    /\ isApiKeySelected' = IF ok THEN CheckApiKeySelected ELSE isApiKeySelected
    /\ pendingChecks' = IF ok THEN CheckApiKeyPending ELSE pendingChecks
    /\ UNCHANGED <<status, apiKeyError, error, uploadProgress,
                   activeRagStoreName, ragStoreNameRef, chatHistory,
                   isQueryLoading, exampleQuestions, documentName, files>>
    /\ UNCHANGED <<envVars, runVars, queryVars, remoteVars, unloaded>>
    /\ SampleFrame
    /\ UNCHANGED <<disposing, viewVars>>

PickerDone == \E ok \in BOOLEAN : PickerResult(ok)

\* ------------------------------------------------------------ pending files
Range(fs) == {fs[k] : k \in 1..Len(fs)}

\* The files a picker or a drop delivers: one or more, each a file that is
\* not pending yet.
Picks(pending) ==
    {p \in UNION {[1..k -> FileNames \ Range(pending)] : k \in 1..(MaxFiles - Len(pending))} :
        \A a, b \in 1..Len(p) : a # b => p[a] # p[b]}

\* handleFileChange / handleDrop: setFiles(prev => [...prev, ...picked]).
AddFiles ==
    /\ WelcomeShown
    /\ Len(files) < MaxFiles
    /\ \E picked \in Picks(files) : files' = files \o picked
    /\ UNCHANGED <<status, isApiKeySelected, apiKeyError, error, uploadProgress,
                   activeRagStoreName, ragStoreNameRef, chatHistory,
                   isQueryLoading, exampleQuestions, documentName>>
    /\ UNCHANGED <<envVars, credVars, runVars, queryVars, remoteVars, unloaded>>
    /\ SampleFrame
    /\ UNCHANGED <<disposing, viewVars>>

\* handleRemoveFile: filter out the index.
RemoveAt(fs, idx) == [k \in 1..(Len(fs) - 1) |-> IF k < idx THEN fs[k] ELSE fs[k + 1]]

RemoveFile ==
    /\ WelcomeShown
    /\ \E idx \in 1..Len(files) : files' = RemoveAt(files, idx)
    /\ UNCHANGED <<status, isApiKeySelected, apiKeyError, error, uploadProgress,
                   activeRagStoreName, ragStoreNameRef, chatHistory,
                   isQueryLoading, exampleQuestions, documentName>>
    /\ UNCHANGED <<envVars, credVars, runVars, queryVars, remoteVars, unloaded>>
    /\ SampleFrame
    /\ UNCHANGED <<disposing, viewVars>>

\* ------------------------------------------------------------ handleError
\* ${message}${err ? : ${err instanceof Error ? err.message : String(err)} : ''}
FormatError(message, err) ==
    message \o (IF Truthy(err) THEN <<":", " ">> \o ErrText(err) ELSE <<>>)

\* handleError without its setStatus call
StatusAfterHandleError_Unset == status

\* handleError that goes back to the initial status
StatusAfterHandleError_Restart == "Initializing"

\* handleError: setStatus(AppStatus.Error)
StatusAfterHandleError == "Error"

\* ---------------------------------------------------------- upload pipeline
\* The heuristic applied to the text as thrown, without toLowerCase()
IsCredentialInvalid_CaseSensitive(err) ==
    \/ Includes(ErrText(err), PatApiKeyNotValid)
    \/ Includes(ErrText(err), PatEntityNotFound)

\* The catch of handleUploadAndStartChat: the invalid-credential heuristic.
IsCredentialInvalid(err) ==
    \/ Includes(ToLowerCase(ErrText(err)), PatApiKeyNotValid)
    \/ Includes(ToLowerCase(ErrText(err)), PatEntityNotFound)

\* const totalSteps = files.length + 2
TotalSteps(fs) == Len(fs) + 2

Progress(cur, tot, msg, fname) ==
    [current |-> cur, total |-> tot, message |-> msg, fileName |-> fname]

\* (${i + 1}/${files.length}) ${files[i].name}, i counted from 0
FileLabel(i, fs) == <<"(", i + 1, "/", Len(fs), ") ", fs[i + 1]>>

\* current of the loop's progress update for index i (counted from 0)
LoopCurrent(i) == i + 1

\* setUploadProgress(prev => ({...prev!, current, message, fileName})) in the loop
LoopProgress(prev, i, fs) ==
    Progress(LoopCurrent(i),
             IF prev = Null THEN NoTotal ELSE prev[1].total,
             "Generating embeddings...",
             Some(FileLabel(i, fs)))

\* The derivation without its last branch
DocName_PairOnly(fs) ==
    IF Len(fs) = 1 THEN <<fs[1]>> ELSE <<fs[1], " & ", fs[2]>>

\* The derived document name.
DocName(fs) ==
    IF Len(fs) = 1 THEN <<fs[1]>>
    ELSE IF Len(fs) = 2 THEN <<fs[1], " & ", fs[2]>>
    ELSE <<Len(fs), " documents">>

\* The ref without the effect that follows the state
RefAfterCommit_Stale(name) == ragStoreNameRef

\* useEffect(() => { ragStoreNameRef.current = activeRagStoreName }): the ref
\* after a commit that set activeRagStoreName to name
RefAfterCommit(name) == name

\* One call of handleUploadAndStartChat past its first await: where it is
\* suspended (pc), the files its closure captured, the loop index, and the
\* progress objects its setUploadProgress calls have produced so far.
Run(id, pc, fs, i, reported) ==
    [id |-> id, pc |-> pc, files |-> fs, i |-> i, reported |-> reported]

\* The credential guard with the check removed
HasCredential_Always == TRUE

\* if (!isApiKeySelected) at the head of handleUploadAndStartChat
HasCredential == isApiKeySelected

\* onUpload with no credential selected: the message is set and the call throws.
UploadNoKey ==
    /\ WelcomeShown
    /\ ~HasCredential
    /\ apiKeyError' = Some(KeyRequiredText)
    /\ UNCHANGED <<status, isApiKeySelected, error, uploadProgress,
                   activeRagStoreName, ragStoreNameRef, chatHistory,
                   isQueryLoading, exampleQuestions, documentName, files>>
    /\ UNCHANGED <<envVars, credVars, runVars, queryVars, remoteVars, unloaded>>
    /\ SampleFrame
    /\ UNCHANGED <<disposing, viewVars>>

\* onUpload with no pending file: returns at once.
UploadNoFiles ==
    /\ WelcomeShown
    /\ HasCredential
    /\ Len(files) = 0
    /\ UNCHANGED uiVars
    /\ UNCHANGED <<envVars, credVars, runVars, queryVars, remoteVars, unloaded>>
    /\ SampleFrame
    /\ UNCHANGED <<disposing, viewVars>>

\* geminiService.initialize throws: handleError, and the call rethrows.
UploadInitFail ==
    /\ WelcomeShown
    /\ HasCredential
    /\ Len(files) > 0
    /\ \E err \in OtherErrs :
        /\ error' = Some(FormatError(MsgInitFailed, err))
    /\ status' = StatusAfterHandleError
    /\ apiKeyError' = Null
    /\ UNCHANGED <<isApiKeySelected, uploadProgress, activeRagStoreName,
                   ragStoreNameRef, chatHistory, isQueryLoading,
                   exampleQuestions, documentName, files>>
    /\ UNCHANGED <<envVars, credVars, runVars, queryVars, remoteVars, unloaded>>
    /\ SampleFrame
    /\ UNCHANGED <<disposing, viewVars>>

\* onUpload up to await createRagStore(storeName).
UploadStart ==
    /\ WelcomeShown
    /\ HasCredential
    /\ Len(files) > 0
    /\ nextRun <= RunLimit
    /\ apiKeyError' = Null
    /\ status' = "Uploading"
    /\ LET p == Progress(0, TotalSteps(files), "Creating document index...", Null)
       IN /\ uploadProgress' = Some(p)
          /\ runs' = runs \cup {Run(nextRun, "create", files, 0, <<p>>)}
    /\ nextRun' = nextRun + 1
    /\ UNCHANGED <<isApiKeySelected, error, activeRagStoreName, ragStoreNameRef,
                   chatHistory, isQueryLoading, exampleQuestions, documentName,
                   files>>
    /\ UNCHANGED <<envVars, credVars, queryVars, remoteVars, unloaded>>
    /\ SampleFrame
    /\ UNCHANGED <<disposing, viewVars>>

\* Run r moves on to pc after the setUploadProgress calls ps of one stretch.
Step(r, pc, i, ps) == Run(r.id, pc, r.files, i, r.reported \o ps)

\* createRagStore resolved: setUploadProgress with current 1, then the loop's
\* first setUploadProgress (index 0) and upload; the second call's updater
\* receives the object of the first.
CreateStoreOk ==
    /\ Mounted
    /\ \E r \in runs :
        /\ r.pc = "create"
        /\ LET first == Progress(1, TotalSteps(r.files), "Generating embeddings...", Null)
               p == LoopProgress(Some(first), 0, r.files)
           IN /\ uploadProgress' = Some(p)
              /\ runs' = (runs \ {r}) \cup {Step(r, "upload", 0, <<first, p>>)}
        /\ stores' = stores \cup {r.id}
    /\ UNCHANGED <<status, isApiKeySelected, apiKeyError, error,
                   activeRagStoreName, ragStoreNameRef, chatHistory,
                   isQueryLoading, exampleQuestions, documentName, files>>
    /\ UNCHANGED <<envVars, credVars, nextRun, queryVars, disposeCalls, unloaded>>
    /\ SampleFrame
    /\ UNCHANGED <<disposing, viewVars>>

\* A loop that skips a file
NextIndex_Skip(i) == i + 2

\* i++ of the upload loop
NextIndex(i) == i + 1

\* uploadToRagStore resolved for file i: the next file, or the suggestions request.
UploadOk ==
    /\ Mounted
    /\ \E r \in runs :
        /\ r.pc = "upload"
        /\ LET j == NextIndex(r.i)
               more == j < Len(r.files)
               p == IF more
                    THEN LoopProgress(uploadProgress, j, r.files)
                    ELSE Progress(Len(r.files) + 1, TotalSteps(r.files),
                                  "Generating suggestions...", Some(<<>>))
           IN /\ uploadProgress' = Some(p)
              /\ runs' = (runs \ {r}) \cup
                           {Step(r, IF more THEN "upload" ELSE "suggest", j, <<p>>)}
    /\ UNCHANGED <<status, isApiKeySelected, apiKeyError, error,
                   activeRagStoreName, ragStoreNameRef, chatHistory,
                   isQueryLoading, exampleQuestions, documentName, files>>
    /\ UNCHANGED <<envVars, credVars, nextRun, queryVars, remoteVars, unloaded>>
    /\ SampleFrame
    /\ UNCHANGED <<disposing, viewVars>>

\* generateExampleQuestions resolved: "All set!" and the short delay.
SuggestOk ==
    /\ Mounted
    /\ \E r \in runs :
        /\ r.pc = "suggest"
        /\ \E qs \in QuestionLists : exampleQuestions' = qs
        /\ LET p == Progress(TotalSteps(r.files), TotalSteps(r.files), "All set!", Some(<<>>))
           IN /\ uploadProgress' = Some(p)
              /\ runs' = (runs \ {r}) \cup {Step(r, "hold", r.i, <<p>>)}
    /\ UNCHANGED <<status, isApiKeySelected, apiKeyError, error,
                   activeRagStoreName, ragStoreNameRef, chatHistory,
                   isQueryLoading, documentName, files>>
    /\ UNCHANGED <<envVars, credVars, nextRun, queryVars, remoteVars, unloaded>>
    /\ SampleFrame
    /\ UNCHANGED <<disposing, viewVars>>

\* A run without its finally block
ProgressAfterRun_Kept == uploadProgress

\* finally { setUploadProgress(null) }
ProgressAfterRun == Null

\* Success without its setStatus call
StatusAfterSuccess_Unset == status

\* setStatus(AppStatus.Chatting)
StatusAfterSuccess == "Chatting"

\* The delay elapsed: the run succeeds; finally clears the progress.
PipelineSuccess ==
    /\ Mounted
    /\ \E r \in runs :
        /\ r.pc = "hold"
        /\ documentName' = DocName(r.files)
        /\ activeRagStoreName' = r.id
        /\ ragStoreNameRef' = RefAfterCommit(r.id)
        /\ runs' = runs \ {r}
    /\ chatHistory' = <<>>
    /\ status' = StatusAfterSuccess
    /\ files' = <<>>
    /\ uploadProgress' = ProgressAfterRun
    /\ UNCHANGED <<isApiKeySelected, apiKeyError, error, isQueryLoading,
                   exampleQuestions>>
    /\ UNCHANGED <<envVars, credVars, nextRun, queryVars, remoteVars, unloaded>>
    /\ SampleFrame
    /\ UNCHANGED <<disposing, viewVars>>

AwaitingRemote == {"create", "upload", "suggest"}

\* A catch that resumes the run it caught
RunsAfterFail_Resumed(r) == runs

\* The rejection leaves the try block: the call runs its catch and finally,
\* rethrows, and is over.
RunsAfterFail(r) == runs \ {r}

\* A catch that drops the pending files
FilesAfterFail_Cleared == <<>>

\* Neither the catch nor the finally calls setFiles.
FilesAfterFail == files

\* createRagStore, uploadToRagStore or generateExampleQuestions of run r
\* rejected with err: the catch classifies it, finally clears the progress.
PipelineFail(r, err) ==
    /\ Mounted
    /\ r \in runs
    /\ r.pc \in AwaitingRemote
    /\ runs' = RunsAfterFail(r)
    /\ uploadProgress' = ProgressAfterRun
    /\ IF IsCredentialInvalid(err)
       THEN /\ apiKeyError' = Some(KeyInvalidText)
            /\ isApiKeySelected' = FALSE
            /\ status' = "Welcome"
            /\ error' = error
       ELSE /\ error' = Some(FormatError(MsgStartFailed, err))
            /\ status' = StatusAfterHandleError
            /\ UNCHANGED <<apiKeyError, isApiKeySelected>>
    /\ files' = FilesAfterFail
    /\ UNCHANGED <<activeRagStoreName, ragStoreNameRef, chatHistory,
                   isQueryLoading, exampleQuestions, documentName>>
    /\ UNCHANGED <<envVars, credVars, nextRun, queryVars, remoteVars, unloaded>>
    /\ SampleFrame
    /\ UNCHANGED <<disposing, viewVars>>

\* --------------------------------------------------------------------- chat
Turn(role, text) == [role |-> role, text |-> text]

\* A query sent to the store of the session before
QueryStore_Previous ==
    IF activeRagStoreName > 1 THEN activeRagStoreName - 1 ELSE activeRagStoreName

\* geminiService.fileSearch(activeRagStoreName, message)
QueryStore == activeRagStoreName

\* An update that keeps only the new turn
AppendTurn_Replace(prev, turn) == <<turn>>

\* setChatHistory(prev => [...prev, turn])
AppendTurn(prev, turn) == Append(prev, turn)

\* The input and the send button of ChatInterface are disabled while
\* isQueryLoading, so handleSubmit cannot be reached then.
SendEnabled == ~isQueryLoading

\* handleSendMessage without its setIsQueryLoading(true)
LoadingAfterSend_Unset == isQueryLoading

\* setIsQueryLoading(true) when a message is sent
LoadingAfterSend == TRUE

\* handleSendMessage up to await fileSearch(activeRagStoreName, message);
\* with no active store it returns at once.
SendMessage ==
    /\ ChatShown
    /\ SendEnabled
    /\ nextQuery <= MaxQueries
    /\ \E m \in Messages :
        IF activeRagStoreName = NoStore
        THEN UNCHANGED <<chatHistory, isQueryLoading, queryVars>>
        ELSE /\ chatHistory' = AppendTurn(chatHistory, Turn("user", m))
             /\ queries' = queries \cup
                    {[id |-> nextQuery, store |-> QueryStore, text |-> m]}
             /\ isQueryLoading' = LoadingAfterSend
             /\ nextQuery' = nextQuery + 1
    /\ UNCHANGED <<status, isApiKeySelected, apiKeyError, error, uploadProgress,
                   activeRagStoreName, ragStoreNameRef, exampleQuestions,
                   documentName, files>>
    /\ UNCHANGED <<envVars, credVars, runVars, remoteVars, unloaded>>
    /\ SampleFrame
    /\ UNCHANGED <<disposing, viewVars>>

\* fileSearch resolved: the model turn is appended; finally clears the flag.
QueryOk(q, a) ==
    /\ Mounted
    /\ q \in queries
    /\ chatHistory' = AppendTurn(chatHistory, Turn("model", a))
    /\ queries' = queries \ {q}
    /\ isQueryLoading' = FALSE
    /\ UNCHANGED <<status, isApiKeySelected, apiKeyError, error, uploadProgress,
                   activeRagStoreName, ragStoreNameRef, exampleQuestions,
                   documentName, files>>
    /\ UNCHANGED <<envVars, credVars, runVars, nextQuery, remoteVars, unloaded>>
    /\ SampleFrame
    /\ UNCHANGED <<disposing, viewVars>>

\* fileSearch rejected: the apology turn is appended, then handleError.
QueryFail(q, err) ==
    /\ Mounted
    /\ q \in queries
    /\ error' = Some(FormatError(MsgQueryFailed, err))
    /\ queries' = queries \ {q}
    /\ chatHistory' = AppendTurn(chatHistory, Turn("model", ApologyText))
    /\ status' = StatusAfterHandleError
    /\ isQueryLoading' = FALSE
    /\ UNCHANGED <<isApiKeySelected, apiKeyError, uploadProgress,
                   activeRagStoreName, ragStoreNameRef, exampleQuestions,
                   documentName, files>>
    /\ UNCHANGED <<envVars, credVars, runVars, nextQuery, remoteVars, unloaded>>
    /\ SampleFrame
    /\ UNCHANGED <<disposing, viewVars>>

\* ---------------------------------------------------------------- disposal
\* geminiService.deleteRagStore(name), not awaited
Dispose(name) == [disposeCalls EXCEPT ![name] = @ + 1]

\* handleEndChat without its setActiveRagStoreName(null)
StoreAfterEndChat_Kept == activeRagStoreName

\* setActiveRagStoreName(null) of handleEndChat, copied to the ref by the effect
StoreAfterEndChat == NoStore

\* handleEndChat without its setStatus call
StatusAfterEndChat_Kept == status

\* setStatus(AppStatus.Welcome) of handleEndChat
StatusAfterEndChat == "Welcome"

\* handleEndChat
EndChat ==
    /\ ChatShown
    /\ disposeCalls' = IF activeRagStoreName # NoStore
                       THEN Dispose(activeRagStoreName) ELSE disposeCalls
    /\ activeRagStoreName' = StoreAfterEndChat
    /\ ragStoreNameRef' = RefAfterCommit(StoreAfterEndChat)
    /\ chatHistory' = <<>>
    /\ exampleQuestions' = <<>>
    /\ documentName' = <<>>
    /\ files' = <<>>
    /\ status' = StatusAfterEndChat
    /\ UNCHANGED <<isApiKeySelected, apiKeyError, error, uploadProgress,
                   isQueryLoading>>
    /\ UNCHANGED <<envVars, credVars, runVars, queryVars, stores, unloaded>>
    /\ disposing' = IF activeRagStoreName # NoStore
                    THEN disposing \cup {activeRagStoreName} ELSE disposing
    /\ SampleFrame
    /\ UNCHANGED viewVars

\* clearError, the "Try again" button of the error screen
ClearError ==
    /\ ErrorShown
    /\ error' = Null
    /\ status' = "Welcome"
    /\ UNCHANGED <<isApiKeySelected, apiKeyError, uploadProgress,
                   activeRagStoreName, ragStoreNameRef, chatHistory,
                   isQueryLoading, exampleQuestions, documentName, files>>
    /\ UNCHANGED <<envVars, credVars, runVars, queryVars, remoteVars, unloaded>>
    /\ SampleFrame
    /\ UNCHANGED <<disposing, viewVars>>

\* handleUnload on beforeunload; the page then goes away, and with it every
\* handler that was suspended at an await.
Unload ==
    /\ Mounted
    /\ disposeCalls' = IF ragStoreNameRef # NoStore
                       THEN Dispose(ragStoreNameRef) ELSE disposeCalls
    /\ unloaded' = TRUE
    /\ runs' = {}
    /\ queries' = {}
    /\ pendingChecks' = 0
    /\ pickerOpen' = 0
    /\ UNCHANGED uiVars
    /\ UNCHANGED <<envVars, nextRun, nextQuery, stores>>
    /\ loadingSample' = Null
    /\ fetches' = {}
    /\ disposing' = {}
    /\ UNCHANGED <<nextFetch, alerts, viewVars>>

\* ------------------------------------------------------------ specification
Next ==
    \/ Mount
    \/ FocusCheck
    \/ CheckApiKeyDone
    \/ SelectKey
    \/ PickerDone
    \/ AddFiles
    \/ RemoveFile
    \/ UploadNoKey
    \/ UploadNoFiles
    \/ UploadInitFail
    \/ UploadStart
    \/ CreateStoreOk
    \/ UploadOk
    \/ SuggestOk
    \/ PipelineSuccess
    \/ \E r \in runs, err \in Errs : PipelineFail(r, err)
    \/ SendMessage
    \/ \E q \in queries, a \in Answers : QueryOk(q, a)
    \/ \E q \in queries, err \in OtherErrs : QueryFail(q, err)
    \/ EndChat
    \/ ClearError
    \/ Unload

Spec == Init /\ [][Next]_vars

\* ------------------------------------------- sample documents and disposal
\* sampleDocuments of the welcome screen, by name.
Samples == {"Iphone 17 Pro Max Manual", "LG Washer Manual"}

SampleFileName(name) ==
    IF name = "Iphone 17 Pro Max Manual"
    THEN "apple-mobile-manual.pdf" ELSE "lg-washer-manual.pdf"

PatFailedToFetch == <<"F","a","i","l","e","d"," ","t","o"," ","f","e","t","c","h">>

\* fetch() rejected, as Chromium words it
FetchErrNetwork == [isError |-> TRUE, message |-> <<"F","a","i","l","e","d"," ","t","o"," ","f","e","t","c","h">>]
\* fetch() or response.blob() rejected, as WebKit words it
FetchErrLoad == [isError |-> TRUE, message |-> <<"L","o","a","d"," ","f","a","i","l","e","d">>]
\* !response.ok: Failed to fetch ${name}: ${response.statusText}. This may be a CORS issue.
FetchErrNotOk(name) ==
    [isError |-> TRUE,
     message |-> <<"F","a","i","l","e","d"," ","t","o"," ","f","e","t","c","h"," ">> \o <<name>> \o
                 <<":"," ","N","o","t"," ","F","o","u","n","d","."," ","T","h","i","s"," ","m","a","y"," ","b","e"," ","a"," ","C","O","R","S"," ","i","s","s","u","e",".">>]

FetchErrs(name) == {FetchErrNetwork, FetchErrLoad, FetchErrNotOk(name)}

\* A catch that notifies whatever the error says
ShouldAlert_Always(err) == TRUE

\* error instanceof Error && error.message.includes('Failed to fetch')
ShouldAlert(err) == err.isError /\ Includes(err.message, PatFailedToFetch)

\* handleSelectSample up to await fetch(url); it returns at once while
\* loadingSample is set.
SelectSample ==
    /\ WelcomeShown
    /\ loadingSample = Null
    /\ nextFetch <= MaxFetches
    /\ \E name \in Samples :
        /\ loadingSample' = Some(name)
        /\ fetches' = fetches \cup {[id |-> nextFetch, name |-> name, live |-> TRUE]}
    /\ nextFetch' = nextFetch + 1
    /\ UNCHANGED <<uiVars, envVars, credVars, runVars, queryVars, remoteVars,
                   unloaded, alerts, disposing, viewVars>>

\* setLoadingSample(null) in finally: it reaches the instance that made the
\* call, which may be unmounted by now.
LoadingAfterFetch(f) == IF f.live THEN Null ELSE loadingSample

\* fetch and blob resolved: the file is appended to the pending files.
SampleFetchOk(f) ==
    /\ Mounted
    /\ f \in fetches
    /\ files' = Append(files, SampleFileName(f.name))
    /\ fetches' = fetches \ {f}
    /\ loadingSample' = LoadingAfterFetch(f)
    /\ UNCHANGED <<status, isApiKeySelected, apiKeyError, error, uploadProgress,
                   activeRagStoreName, ragStoreNameRef, chatHistory,
                   isQueryLoading, exampleQuestions, documentName>>
    /\ UNCHANGED <<envVars, credVars, runVars, queryVars, remoteVars, unloaded,
                   nextFetch, alerts, disposing, viewVars>>

\* fetch rejected, the response was not ok, or blob rejected: the catch logs
\* and, for some errors, alerts.
SampleFetchFail(f, err) ==
    /\ Mounted
    /\ f \in fetches
    /\ fetches' = fetches \ {f}
    /\ alerts' = IF ShouldAlert(err) THEN alerts + 1 ELSE alerts
    /\ loadingSample' = LoadingAfterFetch(f)
    /\ UNCHANGED <<uiVars, envVars, credVars, runVars, queryVars, remoteVars,
                   unloaded, nextFetch, disposing, viewVars>>

\* A .catch that hands the rejection to handleError
ErrorAfterDispose_Surfaced(ok) ==
    IF ok THEN error ELSE Some(<<"F","a","i","l","e","d">>)

\* .catch(err => console.error(...)): lastError after a disposal settled
ErrorAfterDispose(ok) == error

\* A deleteRagStore promise settled; a rejection is logged by its .catch.
DisposeSettle(s, ok) ==
    /\ Mounted
    /\ s \in disposing
    /\ disposing' = disposing \ {s}
    /\ error' = ErrorAfterDispose(ok)
    /\ UNCHANGED <<status, isApiKeySelected, apiKeyError, uploadProgress,
                   activeRagStoreName, ragStoreNameRef, chatHistory,
                   isQueryLoading, exampleQuestions, documentName, files>>
    /\ UNCHANGED <<envVars, credVars, runVars, queryVars, remoteVars,
                   unloaded, sampleVars, viewVars>>

\* The page with a preset credential where the user picks files and samples,
\* uploads and ends chats but sends no message.
InitSamples == Init /\ viteApiKey

NextSamples ==
    \/ Mount
    \/ FocusCheck
    \/ SelectKey
    \/ AddFiles
    \/ RemoveFile
    \/ UploadNoKey
    \/ UploadStart
    \/ CreateStoreOk
    \/ UploadOk
    \/ SuggestOk
    \/ PipelineSuccess
    \/ \E r \in runs, err \in Errs : PipelineFail(r, err)
    \/ EndChat
    \/ ClearError
    \/ Unload
    \/ SelectSample
    \/ \E f \in fetches : SampleFetchOk(f)
    \/ \E f \in fetches : \E err \in FetchErrs(f.name) : SampleFetchFail(f, err)
    \/ \E s \in disposing, ok \in BOOLEAN : DisposeSettle(s, ok)

SpecSamples == InitSamples /\ [][NextSamples]_vars

\* ---------------------------------------------- ChatInterface.renderMarkdown
\* A line is a sequence of characters; a tag the function writes is one
\* element of the sequence (class attributes left out), which no pattern of
\* the function matches.
LineChars == {"*", " ", "a"}

RECURSIVE StringsUpTo(_)
StringsUpTo(n) ==
    IF n = 0 THEN {<<>>}
    ELSE StringsUpTo(n - 1) \cup
            {Append(s, c) : s \in {t \in StringsUpTo(n - 1) : Len(t) = n - 1},
                            c \in LineChars}

\* Longer lines: "- a", "1. a" and "* a *a*".
ExtraLines ==
    {<<"-", " ", "a">>, <<"1", ".", " ", "a">>,
     <<"*", " ", "a", " ", "*", "a", "*">>}

LineSet == StringsUpTo(MaxLineLen) \cup ExtraLines

\* The delimiter d stands at position i of s.
StartsAt(s, i, d) ==
    /\ i + Len(d) - 1 <= Len(s)
    /\ \A k \in 1..Len(d) : s[i + k - 1] = d[k]

\* d(.*?)d matched at position i: the position of the closing delimiter, the
\* first one after the opening delimiter; 0 when there is no match at i.
CloseAt(s, i, d) ==
    IF StartsAt(s, i, d) /\ \E j \in (i + Len(d))..Len(s) : StartsAt(s, j, d)
    THEN CHOOSE j \in (i + Len(d))..Len(s) :
            /\ StartsAt(s, j, d)
            /\ \A j2 \in (i + Len(d))..(j - 1) : ~StartsAt(s, j2, d)
    ELSE 0

\* s.replace(/d1(.*?)d1|d2(.*?)d2/g, '<tag>$1$2</tag>'), from position i on.
RECURSIVE ReplacePairs(_, _, _, _, _, _)
ReplacePairs(s, i, d1, d2, open, close) ==
    IF i > Len(s) THEN <<>>
    ELSE LET c1 == CloseAt(s, i, d1)
             c2 == CloseAt(s, i, d2)
             d == IF c1 # 0 THEN d1 ELSE d2
             c == IF c1 # 0 THEN c1 ELSE c2
         IN IF c # 0
            THEN <<open>> \o SubSeq(s, i + Len(d), c - 1) \o <<close>>
                    \o ReplacePairs(s, c + Len(d), d1, d2, open, close)
            ELSE <<s[i]>> \o ReplacePairs(s, i + 1, d1, d2, open, close)

\* The backtick character.
Backtick == "BT"

\* /BT([^BT]+)BT/ matched at position i: the position of the closing backtick,
\* or 0.
CodeCloseAt(s, i) ==
    IF /\ s[i] = Backtick
       /\ i + 1 <= Len(s)
       /\ s[i + 1] # Backtick
       /\ \E j \in (i + 2)..Len(s) : s[j] = Backtick
    THEN CHOOSE j \in (i + 2)..Len(s) :
            s[j] = Backtick /\ \A j2 \in (i + 2)..(j - 1) : s[j2] # Backtick
    ELSE 0

\* s.replace(/BT([^BT]+)BT/g, '<code ...>$1</code>'), from position i on.
RECURSIVE ReplaceCode(_, _)
ReplaceCode(s, i) ==
    IF i > Len(s) THEN <<>>
    ELSE LET c == CodeCloseAt(s, i)
         IN IF c # 0
            THEN <<"<code>">> \o SubSeq(s, i + 1, c - 1) \o <<"</code>">>
                    \o ReplaceCode(s, c + 1)
            ELSE <<s[i]>> \o ReplaceCode(s, i + 1)

\* The three replacements applied to a raw line: strong, then em, then code.
InlineTransform(rawLine) ==
    ReplaceCode(
        ReplacePairs(
            ReplacePairs(rawLine, 1, <<"*", "*">>, <<"_", "_">>,
                         "<strong>", "</strong>"),
            1, <<"*">>, <<"_">>, "<em>", "</em>"),
        1)

IsSpace(c) == c = " "
IsDigit(c) == c \in {"0", "1", "2", "3", "4", "5", "6", "7", "8", "9"}

\* ^\s*: the number of leading whitespace characters of s.
LeadingSpaces(s) ==
    CHOOSE n \in 0..Len(s) :
        /\ \A k \in 1..n : IsSpace(s[k])
        /\ (n = Len(s) \/ ~IsSpace(s[n + 1]))

\* \d+: the number of digits of s from position i on.
LeadingDigits(s, i) ==
    CHOOSE n \in 0..(Len(s) - i + 1) :
        /\ \A k \in i..(i + n - 1) : IsDigit(s[k])
        /\ (i + n > Len(s) \/ ~IsDigit(s[i + n]))

\* line.match(/^\s*\d+\.\s(.*)/): the position where the captured item
\* begins, 0 when the line does not match.
OlMatch(line) ==
    LET sp == LeadingSpaces(line)
        dg == LeadingDigits(line, sp + 1)
    IN IF /\ dg >= 1
          /\ sp + dg + 2 <= Len(line)
          /\ line[sp + dg + 1] = "."
          /\ IsSpace(line[sp + dg + 2])
       THEN sp + dg + 3
       ELSE 0

\* line.match(/^\s*[\*\-]\s(.*)/): the position where the captured item
\* begins, 0 when the line does not match.
UlMatch(line) ==
    LET sp == LeadingSpaces(line)
    IN IF /\ sp + 2 <= Len(line)
          /\ line[sp + 1] \in {"*", "-"}
          /\ IsSpace(line[sp + 2])
       THEN sp + 3
       ELSE 0

\* line.trim() === ''
IsBlank(line) == \A k \in 1..Len(line) : IsSpace(line[k])

NoList == "null"

\* The locals of renderMarkdown.
RenderState(h, lt, pb) == [html |-> h, listType |-> lt, paraBuffer |-> pb]

flushPara(st) ==
    IF st.paraBuffer # <<>>
    THEN RenderState(st.html \o <<"<p>">> \o st.paraBuffer \o <<"</p>">>,
                     st.listType, <<>>)
    ELSE st

flushList(st) ==
    IF st.listType # NoList
    THEN RenderState(Append(st.html, "</" \o st.listType \o ">"), NoList,
                     st.paraBuffer)
    ELSE st

\* A list line of the kind lt whose item begins at position from.
ListLine(st, lt, line, from) ==
    LET flushed == flushPara(st)
        opened == IF flushed.listType # lt
                  THEN LET closed == flushList(flushed)
                       IN RenderState(Append(closed.html, "<" \o lt \o ">"),
                                      lt, closed.paraBuffer)
                  ELSE flushed
    IN RenderState(opened.html \o <<"<li>">> \o SubSeq(line, from, Len(line))
                        \o <<"</li>">>,
                   opened.listType, opened.paraBuffer)

\* The body of the loop for one raw line.
RenderLine(st, rawLine) ==
    LET line == InlineTransform(rawLine)
    IN IF OlMatch(line) # 0 THEN ListLine(st, "ol", line, OlMatch(line))
       ELSE IF UlMatch(line) # 0 THEN ListLine(st, "ul", line, UlMatch(line))
       ELSE LET closed == flushList(st)
            IN IF IsBlank(line)
               THEN flushPara(closed)
               ELSE RenderState(closed.html, closed.listType,
                        closed.paraBuffer
                            \o (IF closed.paraBuffer # <<>> THEN <<"<br/>">> ELSE <<>>)
                            \o line)

\* The locals after the first k lines.
RECURSIVE RenderLines(_, _)
RenderLines(ls, k) ==
    IF k = 0 THEN RenderState(<<>>, NoList, <<>>)
    ELSE RenderLine(RenderLines(ls, k - 1), ls[k])

\* renderMarkdown(text), the text given as text.split('\n').
renderMarkdown(ls) ==
    IF ls = <<<<>>>> THEN <<>>
    ELSE flushList(flushPara(RenderLines(ls, Len(ls)))).html

\* A message of the chat is rendered.
Render ==
    /\ ~rendered
    /\ html' = renderMarkdown(lines)
    /\ rendered' = TRUE
    /\ UNCHANGED <<lines, rotVars>>
    /\ UNCHANGED <<uiVars, envVars, credVars, runVars, queryVars, remoteVars,
                   unloaded, sampleVars, disposing>>

\* The chat screen of a session on store 1.
ChatScreen ==
    /\ status = "Chatting"
    /\ isApiKeySelected = TRUE
    /\ apiKeyError = Null
    /\ error = Null
    /\ uploadProgress = Null
    /\ activeRagStoreName = 1
    /\ ragStoreNameRef = 1
    /\ chatHistory = <<>>
    /\ isQueryLoading = FALSE
    /\ documentName = <<"a.pdf">>
    /\ files = <<>>
    /\ viteApiKey = TRUE
    /\ aistudio = FALSE
    /\ pendingChecks = 0
    /\ pickerOpen = 0
    /\ runs = {}
    /\ nextRun = 2
    /\ queries = {}
    /\ nextQuery = 1
    /\ stores = {1}
    /\ disposeCalls = [s \in StoreIds |-> 0]
    /\ unloaded = FALSE
    /\ loadingSample = Null
    /\ fetches = {}
    /\ nextFetch = 1
    /\ alerts = 0
    /\ disposing = {}

\* A text of up to MaxLines lines is about to be rendered.
InitMarkdown ==
    /\ ChatScreen
    /\ exampleQuestions = <<>>
    /\ lines \in UNION {[1..n -> LineSet] : n \in 1..MaxLines}
    /\ rendered = FALSE
    /\ html = <<>>
    /\ currentSuggestion = ""
    /\ suggestionIndex = 0
    /\ intervalSet = FALSE

NextMarkdown == Render

SpecMarkdown == InitMarkdown /\ [][NextMarkdown]_vars

\* ------------------------------------------ ChatInterface suggestion effect
SuggestionTexts == {"q1", "q2", "q3"}

SuggestionLists == UNION {[1..n -> SuggestionTexts] : n \in 0..MaxQuestions}

\* An interval callback that steps backwards
NextSuggestionIndex_Back(i, n) == (i + n - 1) % n

\* suggestionIndex = (suggestionIndex + 1) % exampleQuestions.length
NextSuggestionIndex(i, n) == (i + 1) % n

\* The effect on [exampleQuestions] has run for the list qs, after the
\* cleanup of the previous run cleared its interval.
SuggestionEffect(qs) ==
    IF Len(qs) = 0
    THEN /\ currentSuggestion' = ""
         /\ suggestionIndex' = 0
         /\ intervalSet' = FALSE
    ELSE /\ currentSuggestion' = qs[1]
         /\ suggestionIndex' = 0
         /\ intervalSet' = TRUE

\* The interval fires.
IntervalTick ==
    /\ ChatShown
    /\ intervalSet
    /\ suggestionIndex' =
            NextSuggestionIndex(suggestionIndex, Len(exampleQuestions))
    /\ currentSuggestion' = exampleQuestions[suggestionIndex' + 1]
    /\ UNCHANGED <<intervalSet, mdVars>>
    /\ UNCHANGED <<uiVars, envVars, credVars, runVars, queryVars, remoteVars,
                   unloaded, sampleVars, disposing>>

\* ChatInterface is given another list of suggestions.
QuestionsChanged(qs) ==
    /\ ChatShown
    /\ exampleQuestions' = qs
    /\ SuggestionEffect(qs)
    /\ UNCHANGED <<status, isApiKeySelected, apiKeyError, error, uploadProgress,
                   activeRagStoreName, ragStoreNameRef, chatHistory,
                   isQueryLoading, documentName, files>>
    /\ UNCHANGED <<envVars, credVars, runVars, queryVars, remoteVars, unloaded,
                   sampleVars, disposing, mdVars>>

\* ChatInterface has mounted with a list of up to MaxQuestions suggestions
\* and its effect has run.
InitRotator ==
    /\ ChatScreen
    /\ exampleQuestions \in SuggestionLists
    /\ currentSuggestion = IF Len(exampleQuestions) = 0 THEN "" ELSE exampleQuestions[1]
    /\ suggestionIndex = 0
    /\ intervalSet = (Len(exampleQuestions) # 0)
    /\ lines = <<>>
    /\ rendered = FALSE
    /\ html = <<>>

NextRotator ==
    \/ IntervalTick
    \/ \E qs \in SuggestionLists : QuestionsChanged(qs)

SpecRotator == InitRotator /\ [][NextRotator]_vars

\* Every awaited call of a pipeline run eventually resolves or rejects, and
\* the timer of its final delay fires.
RunStep ==
    \/ CreateStoreOk
    \/ UploadOk
    \/ SuggestOk
    \/ PipelineSuccess
    \/ \E r \in runs, err \in Errs : PipelineFail(r, err)

SpecLive == Init /\ [][Next]_vars /\ WF_vars(RunStep)

\* ------------------------------------------------- one run, up to three files
\* The pipeline on its own: the welcome screen with a preset credential and
\* one to MaxDocFiles files picked (a name may be picked twice), and one run
\* of handleUploadAndStartChat in which every remote call resolves.
DocFileNames == FileNames \cup {"c.pdf"}

InitPipeline ==
    /\ status = "Welcome"
    /\ isApiKeySelected = TRUE
    /\ apiKeyError = Null
    /\ error = Null
    /\ uploadProgress = Null
    /\ activeRagStoreName = NoStore
    /\ ragStoreNameRef = NoStore
    /\ chatHistory = <<>>
    /\ isQueryLoading = FALSE
    /\ exampleQuestions = <<>>
    /\ documentName = <<>>
    /\ files \in UNION {[1..n -> DocFileNames] : n \in 1..MaxDocFiles}
    /\ viteApiKey = TRUE
    /\ aistudio = FALSE
    /\ pendingChecks = 0
    /\ pickerOpen = 0
    /\ runs = {}
    /\ nextRun = 1
    /\ queries = {}
    /\ nextQuery = 1
    /\ stores = {}
    /\ disposeCalls = [s \in StoreIds |-> 0]
    /\ unloaded = FALSE
    /\ AuxInit

NextPipeline ==
    \/ UploadStart
    \/ CreateStoreOk
    \/ UploadOk
    \/ SuggestOk
    \/ PipelineSuccess

SpecPipeline == InitPipeline /\ [][NextPipeline]_vars

\* =================================================================== claims
\* Rejections whose lower-cased text contains 'api key not valid' or
\* 'requested entity was not found'.
CredentialInvalidErrs == {ErrKeyInvalid, ErrEntityNotFound}

\* C1: whenever a pipeline run has failed with a CredentialInvalid error,
\* handling the failure leaves the status Welcome (not Error) and the cached
\* credential-availability flag false.
C1_CredentialInvalidToWelcome ==
    [][\A r \in runs, err \in CredentialInvalidErrs :
        PipelineFail(r, err)
            => (status' = "Welcome" /\ isApiKeySelected' = FALSE)]_vars

\* A run failed after its store was created, on an invalid credential, and
\* the failure has been handled.
C1_Witness ==
    /\ status = "Welcome"
    /\ apiKeyError = Some(KeyInvalidText)
    /\ ~isApiKeySelected
    /\ runs = {}
    /\ stores # {}

\* C2: whenever a pipeline run has failed with an error that does not match
\* the invalid-credential heuristic, handling the failure sets the status to
\* Error and lastError to a non-empty text.
C2_OtherFailureToError ==
    [][\A r \in runs, err \in Errs \ CredentialInvalidErrs :
        PipelineFail(r, err)
            => (status' = "Error" /\ error' # Null /\ Len(error'[1]) > 0)]_vars

\* A run failed on a network error and the failure has been handled.
C2_Witness ==
    /\ status = "Error"
    /\ error = Some(FormatError(MsgStartFailed, ErrNetwork))
    /\ runs = {}

\* C3: when the remote call of a chat turn fails while the session is
\* Chatting, the apology turn is appended and the status stays Chatting:
\* it does not become Error and lastError is not set.
C3_QueryFailureStaysChatting ==
    [][\A q \in queries, err \in OtherErrs :
        (QueryFail(q, err) /\ status = "Chatting")
            => /\ chatHistory' = Append(chatHistory, Turn("model", ApologyText))
               /\ status' = "Chatting"
               /\ error' = error]_vars

TableEdges ==
    { <<"Initializing", "Welcome">>, <<"Welcome", "Uploading">>,
      <<"Uploading", "Chatting">>, <<"Uploading", "Welcome">>,
      <<"Uploading", "Error">>, <<"Chatting", "Welcome">>,
      <<"Error", "Welcome">> }

\* C4: every change of the session status is an edge of the transition
\* table; in particular Error is entered only from Uploading.
C4_StatusEdgesInTable ==
    [][status' # status => <<status, status'>> \in TableEdges]_vars

\* C5: at most one upload pipeline run is in flight at any time.
C5_OneRunInFlight == Cardinality(runs) <= 1

\* C6: at most one chat query is in flight at any time: no second query is
\* issued while one is outstanding.
C6_OneQueryInFlight == Cardinality(queries) <= 1

\* A query of an ended session is still outstanding in the next session's
\* chat, where sending stays disabled.
C6_Witness ==
    /\ status = "Chatting"
    /\ isQueryLoading
    /\ \E q \in queries : q.store # activeRagStoreName

C8_CreateOnlyWithoutActiveStore ==
    [][nextRun' # nextRun => activeRagStoreName = NoStore]_vars

\* C9: once the page has been torn down, disposeStore has been invoked on
\* every store a pipeline run created, the stores of failed runs included.
C9_EveryStoreDisposed ==
    unloaded => \A s \in stores : disposeCalls[s] >= 1

\* C10: within one pipeline run every reported progress object has total
\* N+2, and current starts at 0, grows by exactly 1 from each report (each
\* setUploadProgress call) to the next and is N+2 when the run has succeeded.
C10_ProgressStepsByOne ==
    \A r \in runs :
        /\ r.reported[1].current = 0
        /\ \A k \in 1..Len(r.reported) : r.reported[k].total = Len(r.files) + 2
        /\ \A k \in 1..(Len(r.reported) - 1) :
              r.reported[k + 1].current = r.reported[k].current + 1
        /\ r.pc = "hold" => r.reported[Len(r.reported)].current = Len(r.files) + 2

\* C11: for every file index i in 1..N of a run over N files, the progress
\* reported for that file (the one in effect while it is uploaded) has
\* current = 1+i and a fileName label made of i, N and the name of the i-th
\* input file.
C11_FileReportIsOnePlusIndex ==
    \A r \in runs :
        r.pc = "upload" =>
            LET i == r.i + 1
                p == r.reported[Len(r.reported)]
            IN /\ i \in 1..Len(r.files)
               /\ p.current = 1 + i
               /\ p.fileName = Some(<<"(", i, "/", Len(r.files), ") ", r.files[i]>>)

\* C12: within one run the remote calls are issued strictly in sequence and
\* in input order: a run starts with its store creation, the upload of the
\* first file follows the creation, the upload of file i+1 follows the
\* upload of file i, the suggestion request follows the upload of the last
\* file, and a run is never suspended at two calls at once.
C12_UploadsInSequence ==
    [][/\ \A r1, r2 \in runs : r1.id = r2.id => r1 = r2
       /\ \A n \in runs' \ runs :
            \/ n.pc = "create" /\ n.id = nextRun /\ \A o \in runs : o.id # n.id
            \/ \E o \in runs \ runs' :
                /\ o.id = n.id
                /\ n.files = o.files
                /\ \/ n.pc = "upload" /\ n.i = 0 /\ o.pc = "create"
                   \/ n.pc = "upload" /\ o.pc = "upload" /\ n.i = o.i + 1
                        /\ n.i < Len(n.files)
                   \/ n.pc = "suggest" /\ o.pc = "upload"
                        /\ o.i = Len(o.files) - 1
                   \/ n.pc = "hold" /\ o.pc = "suggest"]_vars

\* A run over two files has uploaded both and awaits the suggestions.
C12_Witness ==
    \E r \in runs : r.pc = "suggest" /\ Len(r.files) = 2

\* C13: within one run every reported progress object has total equal to
\* the file count at the start of the run plus 2, current never decreases
\* from one report to the next, and 0 <= current <= total.
C13_TotalFixedCurrentMonotone ==
    \A r \in runs :
        /\ \A k \in 1..Len(r.reported) :
            /\ r.reported[k].total = Len(r.files) + 2
            /\ 0 <= r.reported[k].current
            /\ r.reported[k].current <= r.reported[k].total
        /\ \A k \in 1..(Len(r.reported) - 1) :
            r.reported[k].current <= r.reported[k + 1].current

\* C14: when the upload of a file fails the run is over: it is suspended at
\* no further call (no later upload, no retry, no suggestion request), the
\* status does not become Chatting, and its store is not made the active
\* handle, then or later (a run that is over never resumes, and a store
\* becomes active only from a run that reached the end of the pipeline).
C14_UploadFailureAborts ==
    [][/\ \A r \in runs, err \in Errs :
            (r.pc = "upload" /\ PipelineFail(r, err))
                => /\ \A n \in runs' : n.id # r.id
                   /\ status' # "Chatting"
                   /\ activeRagStoreName' # r.id
       /\ \A n \in runs' :
            \/ \E o \in runs : o.id = n.id
            \/ n.id = nextRun /\ nextRun' = nextRun + 1
       /\ \A o \in runs : o.id < nextRun
       /\ (activeRagStoreName' # activeRagStoreName /\ activeRagStoreName' # NoStore)
            => \E o \in runs \ runs' :
                  o.id = activeRagStoreName' /\ o.pc = "hold"]_vars

\* The only run so far failed after its store was created; no handle is
\* active.
C14_Witness ==
    /\ status = "Error"
    /\ nextRun = 2
    /\ runs = {}
    /\ stores = {1}
    /\ activeRagStoreName = NoStore

\* C15: when a run succeeds the status becomes Chatting, the active handle
\* is the store that run created, the document name is set, and the pending
\* files and the chat history are empty.
C15_SuccessEntersChatting ==
    [][PipelineSuccess
        => /\ status' = "Chatting"
           /\ \E r \in runs \ runs' :
                r.pc = "hold" /\ activeRagStoreName' = r.id /\ r.id \in stores
           /\ documentName' # <<>>
           /\ files' = <<>>
           /\ chatHistory' = <<>>]_vars

\* The second run of the behaviour has succeeded: its store is the handle.
C15_Witness ==
    /\ status = "Chatting"
    /\ activeRagStoreName = 2
    /\ documentName # <<>>
    /\ files = <<>>
    /\ chatHistory = <<>>

\* C16: the document name a successful run over N >= 1 files derives is the
\* file's name when N = 1, the first name, " & " and the second name when
\* N = 2, and N followed by " documents" when N >= 3.
C16_DocumentNameRule ==
    [][\A r \in runs :
        (r.pc = "hold" /\ r \notin runs')
            => documentName' =
                 IF Len(r.files) = 1 THEN <<r.files[1]>>
                 ELSE IF Len(r.files) = 2
                      THEN <<r.files[1], " & ", r.files[2]>>
                      ELSE <<Len(r.files), " documents">>]_vars

\* A run over three files has succeeded.
C16_Witness ==
    /\ status = "Chatting"
    /\ documentName = <<3, " documents">>

\* C17: a start-upload event on the welcome screen while no credential is
\* available leaves the status Welcome and sets the credential-error
\* message, and with no credential no step from Welcome reaches initialize
\* or createStore, whatever the number of pending files.
C17_NoCredentialNoRemoteCall ==
    [][(status = "Welcome" /\ ~isApiKeySelected)
        => /\ UploadNoKey
              => /\ status' = "Welcome"
                 /\ apiKeyError' = Some(KeyRequiredText)
                 /\ UNCHANGED <<runs, nextRun, stores, error>>
           /\ ~UploadStart
           /\ ~UploadInitFail
           /\ nextRun' = nextRun]_vars

\* Upload was asked for with a file pending and no credential.
C17_Witness ==
    /\ status = "Welcome"
    /\ ~isApiKeySelected
    /\ apiKeyError = Some(KeyRequiredText)
    /\ Len(files) > 0
    /\ nextRun = 1

\* C18: end chat from Chatting moves the status to Welcome, invokes dispose
\* on the handle that was active, and leaves no active handle and an empty
\* chat history, example questions, document name and pending files.
C18_EndChatTearsDown ==
    [][EndChat
        => /\ status = "Chatting"
           /\ status' = "Welcome"
           /\ activeRagStoreName # NoStore
           /\ disposeCalls' = [disposeCalls EXCEPT ![activeRagStoreName] = @ + 1]
           /\ activeRagStoreName' = NoStore
           /\ chatHistory' = <<>>
           /\ exampleQuestions' = <<>>
           /\ documentName' = <<>>
           /\ files' = <<>>]_vars

\* A chat with turns in it was ended: its store has been disposed.
C18_Witness ==
    /\ status = "Welcome"
    /\ activeRagStoreName = NoStore
    /\ nextQuery > 1
    /\ disposeCalls[1] = 1
    /\ chatHistory = <<>>
    /\ documentName = <<>>

\* C19: acknowledging an error in the Error state moves the status to
\* Welcome and clears lastError, and the Error state is left in no other way.
C19_ErrorLeftOnlyByAcknowledge ==
    [][/\ ClearError => (status' = "Welcome" /\ error' = Null)
       /\ (status = "Error" /\ status' # "Error") => ClearError]_vars

\* C20: Initializing is the initial status, the step out of it is always
\* possible and leads to Welcome, and once left it is never entered again.
C20_InitializingOnce ==
    /\ status = "Initializing"
    /\ [](status = "Initializing" => ENABLED Mount)
    /\ [][/\ status = "Initializing" => status' \in {"Initializing", "Welcome"}
          /\ status # "Initializing" => status' # "Initializing"]_vars

\* The welcome screen right after the mount effects.
C20_Witness ==
    /\ status = "Welcome"
    /\ error = Null
    /\ files = <<>>
    /\ nextRun = 1
    /\ ~unloaded

\* C21: with a preset credential in the environment the credential is always
\* available: in every state after the initial check the availability flag
\* is true (so no start-upload is rejected for a missing credential), and the
\* picker is never opened.
C21_PresetCredentialAlwaysAvailable ==
    (viteApiKey /\ status # "Initializing")
        => (isApiKeySelected /\ pickerOpen = 0)

\* C22: with no preset credential and the host capability present, every
\* visibility or focus event and every completed picker flow issues a
\* hasCredential() check, and when a check finishes the availability flag is
\* the value it returned, and false if it failed.
C22_FlagFollowsCheck ==
    [][(~viteApiKey /\ aistudio)
        => /\ FocusCheck => pendingChecks' = pendingChecks + 1
           /\ PickerResult(TRUE) => pendingChecks' = pendingChecks + 1
           /\ CheckApiKeyResult("true") => isApiKeySelected'
           /\ CheckApiKeyResult("false") => ~isApiKeySelected'
           /\ CheckApiKeyResult("rejected") => ~isApiKeySelected']_vars

\* During a chat (so a credential had been selected) a check of the host
\* has come back without one.
C22_Witness ==
    /\ ~viteApiKey
    /\ aistudio
    /\ status = "Chatting"
    /\ ~isApiKeySelected
    /\ pendingChecks = 0
    /\ pickerOpen = 0

C26_RunEventuallyEnds ==
    /\ \A n \in StoreIds :
        (\E r \in runs : r.id = n) ~> (unloaded \/ \A r \in runs : r.id # n)
    /\ [][\A r \in runs :
            ((\A n \in runs' : n.id # r.id) /\ ~unloaded')
                => /\ status' \in {"Chatting", "Welcome", "Error"}
                   /\ uploadProgress' = Null]_vars

\* The second run of the behaviour has ended in an error.
C26_Witness ==
    /\ nextRun = 3
    /\ runs = {}
    /\ status = "Error"
    /\ uploadProgress = Null
    /\ ~unloaded

\* C25: the pending files change only until upload starts: while a run is in
\* flight no step other than the end of a run changes them, a run starts
\* with the files pending at that moment, and it keeps those files until it
\* ends.
C25_FilesFrozenDuringRun ==
    [][/\ (runs # {} /\ ~PipelineSuccess) => files' = files
       /\ \A n \in runs' :
            IF \E o \in runs : o.id = n.id
            THEN \A o \in runs : o.id = n.id => n.files = o.files
            ELSE n.files = files]_vars

\* C27: every failed sample fetch notifies the user, leaves the status and
\* the pending files unchanged and clears the loading marker, and at most
\* one sample fetch is in flight at a time.
C27_SampleFailureRecovered ==
    [][/\ Cardinality(fetches) <= 1
       /\ \A f \in fetches : \A err \in FetchErrs(f.name) :
            SampleFetchFail(f, err)
                => /\ alerts' = alerts + 1
                   /\ status' = status
                   /\ files' = files
                   /\ loadingSample' = Null]_vars

\* C28: disposal is fire-and-forget: a disposal that settles, resolved or
\* rejected, changes neither the status nor lastError nor anything else of
\* the session, and end chat reaches Welcome in the step that issues the
\* disposal, with the disposal still pending.
C28_DisposalFireAndForget ==
    [][/\ \A s \in disposing, ok \in BOOLEAN :
            DisposeSettle(s, ok) => UNCHANGED <<uiVars, runVars, remoteVars>>
       /\ EndChat => (status' = "Welcome" /\ activeRagStoreName \in disposing')]_vars

\* The disposal of the first store is still pending while the next run
\* uploads its files.
C28_Witness ==
    /\ 1 \in disposing
    /\ status = "Uploading"
    /\ \E r \in runs : r.id = 2 /\ r.pc = "upload"

\* The kind of a line of the input text: an ordered-list line (digits, a
\* dot, a space), an unordered-list line (* or -, a space), a blank line
\* or a text line.
KindOf(rawLine) ==
    IF OlMatch(rawLine) # 0 THEN "ol"
    ELSE IF UlMatch(rawLine) # 0 THEN "ul"
    ELSE IF IsBlank(rawLine) THEN "blank"
    ELSE "text"

\* Number of maximal runs of consecutive input lines of one kind.
LineRuns(kind) ==
    Cardinality({k \in 1..Len(lines) :
        KindOf(lines[k]) = kind /\ (k = 1 \/ KindOf(lines[k - 1]) # kind)})

LinesOf(kind) == Cardinality({k \in 1..Len(lines) : KindOf(lines[k]) = kind})

Tokens(tok) == Cardinality({k \in 1..Len(html) : html[k] = tok})

\* The block open after the first k elements of the output: "none", "p",
\* "ul" or "ol", or "bad" when a marker does not match.
RECURSIVE OpenBlock(_)
OpenBlock(k) ==
    IF k = 0 THEN "none"
    ELSE LET before == OpenBlock(k - 1)
             tok == html[k]
         IN CASE before = "bad" -> "bad"
              [] tok = "<p>" -> IF before = "none" THEN "p" ELSE "bad"
              [] tok = "<ul>" -> IF before = "none" THEN "ul" ELSE "bad"
              [] tok = "<ol>" -> IF before = "none" THEN "ol" ELSE "bad"
              [] tok = "</p>" -> IF before = "p" THEN "none" ELSE "bad"
              [] tok = "</ul>" -> IF before = "ul" THEN "none" ELSE "bad"
              [] tok = "</ol>" -> IF before = "ol" THEN "none" ELSE "bad"
              [] OTHER -> IF before = "none" THEN "bad" ELSE before

\* Paragraph and list markers are balanced and never nested.
Balanced ==
    /\ Tokens("</p>") = Tokens("<p>")
    /\ Tokens("</ul>") = Tokens("<ul>")
    /\ Tokens("</ol>") = Tokens("<ol>")
    /\ Tokens("</li>") = Tokens("<li>")
    /\ OpenBlock(Len(html)) = "none"

\* C29: when renderMarkdown has returned, every maximal run of consecutive
\* unordered-list lines of the input has become one unordered list with one
\* item per line (likewise for ordered lists), text lines separated by a
\* blank line have become separate paragraphs, and every paragraph and list
\* that was opened is closed: the open and close markers are balanced.
C29_BlockStructure ==
    rendered
        => /\ Tokens("<ul>") = LineRuns("ul")
           /\ Tokens("<ol>") = LineRuns("ol")
           /\ Tokens("<li>") = LinesOf("ul") + LinesOf("ol")
           /\ Tokens("<p>") = LineRuns("text")
           /\ Balanced

\* C30: the suggestion index starts at 0; while the list is not empty the
\* index is within 0..length-1, the interval is set and the suggestion
\* shown is the element at the index; every tick of the interval sets the
\* index to (index + 1) mod length and changes neither the status nor the
\* chat history; a new list restarts the rotation at element 0; an empty
\* list shows no suggestion and sets no interval.
C30_SuggestionRotation ==
    /\ suggestionIndex = 0
    /\ [](Len(exampleQuestions) > 0
            => /\ suggestionIndex \in 0..(Len(exampleQuestions) - 1)
               /\ intervalSet
               /\ currentSuggestion = exampleQuestions[suggestionIndex + 1])
    /\ [](Len(exampleQuestions) = 0 => ~intervalSet /\ currentSuggestion = "")
    /\ [][IntervalTick
            => /\ suggestionIndex'
                    = (suggestionIndex + 1) % Len(exampleQuestions)
               /\ status' = status
               /\ chatHistory' = chatHistory]_vars
    /\ [][\A qs \in SuggestionLists :
            QuestionsChanged(qs)
                => /\ suggestionIndex' = 0
                   /\ currentSuggestion' = (IF Len(qs) = 0 THEN "" ELSE qs[1])]_vars

\* The rotation over three suggestions has reached the last one.
C30_Witness ==
    /\ status = "Chatting"
    /\ exampleQuestions = <<"q1", "q2", "q3">>
    /\ suggestionIndex = 2
    /\ currentSuggestion = "q3"
    /\ intervalSet

\* C31: whenever the status is Welcome, no store handle is active and the
\* chat history is empty.
C31_WelcomeHasNoResidue ==
    status = "Welcome" => activeRagStoreName = NoStore /\ chatHistory = <<>>

\* C32: the upload progress is present only while the status is Uploading.
C32_ProgressOnlyWhileUploading ==
    status \in {"Welcome", "Chatting", "Error"} => uploadProgress = Null

\* C33: a query whose response, resolved or rejected, arrives after end chat
\* ended the session it was sent in (its store is no longer the active one)
\* changes neither the chat history nor the status; and every model turn of
\* the chat history comes right after a user turn.
C33_LateResponseIgnored ==
    /\ [][\A q \in queries :
            (/\ q.store # activeRagStoreName
             /\ \/ \E a \in Answers : QueryOk(q, a)
                \/ \E err \in OtherErrs : QueryFail(q, err))
                => chatHistory' = chatHistory /\ status' = status]_vars
    /\ [](\A k \in 1..Len(chatHistory) :
            chatHistory[k].role = "model"
                => k > 1 /\ chatHistory[k - 1].role = "user")

\* C34: handling a failed run, in the invalid-credential branch or in the
\* Error branch, changes neither the pending files nor the active handle nor
\* the chat history, and the store of the failed run is not the active
\* handle afterwards.
C34_FailureKeepsSessionData ==
    [][\A r \in runs, err \in Errs :
        PipelineFail(r, err)
            => /\ files' = files
               /\ activeRagStoreName' = activeRagStoreName
               /\ chatHistory' = chatHistory
               /\ activeRagStoreName' # r.id]_vars

\* The only run so far created its store and then failed on an invalid
\* credential: the welcome screen is shown with the files still pending and
\* no handle active.
C34_Witness ==
    /\ status = "Welcome"
    /\ apiKeyError = Some(KeyInvalidText)
    /\ nextRun = 2
    /\ runs = {}
    /\ stores = {1}
    /\ Len(files) > 0
    /\ activeRagStoreName = NoStore
    /\ chatHistory = <<>>

\* C35: when initialize throws on a start-upload event, the status goes from
\* Welcome to Error in that one step (never through Uploading), lastError is
\* set to a non-empty text, no run is started and no store is created, and
\* the upload progress is left as it was, absent.
C35_InitFailureToError ==
    [][UploadInitFail
        => /\ status = "Welcome"
           /\ status' = "Error"
           /\ error' # Null
           /\ error'[1] # <<>>
           /\ runs' = runs
           /\ nextRun' = nextRun
           /\ stores' = stores
           /\ uploadProgress' = uploadProgress
           /\ (runs = {} => uploadProgress' = Null)]_vars

\* initialize threw on the first start-upload event: the error screen shows
\* the initialization message, nothing was created.
C35_Witness ==
    /\ status = "Error"
    /\ error = Some(FormatError(MsgInitFailed, ErrNetwork))
    /\ nextRun = 1
    /\ stores = {}
    /\ uploadProgress = Null
    /\ Len(files) > 0

\* C36: whenever the status is Chatting a store handle is active; every
\* query that is issued goes to the handle active when the message is sent;
\* and a send-message with no active handle issues no query and appends no
\* turn.
C36_QueriesUseActiveHandle ==
    /\ [](status = "Chatting" => activeRagStoreName # NoStore)
    /\ [][\A q \in queries' \ queries :
            q.store = activeRagStoreName /\ q.store # NoStore]_vars
    /\ [][(SendMessage /\ activeRagStoreName = NoStore)
            => queries' = queries /\ chatHistory' = chatHistory]_vars

\* In the second session a query is pending against the second store.
C36_Witness ==
    /\ status = "Chatting"
    /\ activeRagStoreName = 2
    /\ \E q \in queries : q.store = 2
    /\ chatHistory # <<>>

====
